---------------------------- MODULE Spec2Model ----------------------------
(***************************************************************************)
(* The CO2 emissions dashboard (src/app.py) as a state machine.            *)
(*                                                                         *)
(* The program is a Streamlit script: every user interaction re-executes   *)
(* the script top to bottom.  One run is the sequence                      *)
(*   import -> load -> tab1 -> tab2 -> tab3 -> tab4 -> tab5 -> done        *)
(* and an uncaught exception aborts the run where it is raised.  The       *)
(* st.cache_data caches live in the process and survive from run to run;   *)
(* the script's globals (df, PROPHET_AVAILABLE) are rebuilt by every run.  *)
(*                                                                         *)
(* Two specifications share the steps of a run:                            *)
(*   SpecRun  one run of the script with cold caches, over all the input   *)
(*            tables of the model;                                         *)
(*   Spec     a session, any number of runs over the same caches, over     *)
(*            the input tables of SessionTables.                           *)
(*                                                                         *)
(* Numbers: emission values are naturals; percentages are exact rationals  *)
(* in lowest terms, extended with the two non-finite results IEEE-754      *)
(* division by zero produces for non-negative operands (inf and NaN).      *)
(* Floating-point rounding is not modelled.                                *)
(***************************************************************************)
EXTENDS Integers, Sequences, FiniteSets, TLC

VARIABLES
    raw,                \* the rows of data.csv, in file order
    installed,          \* whether the prophet package can be imported
    tieOrder,           \* how this build's quicksort leaves equal keys
    loadCache,          \* st.cache_data of load_data
    filterCache,        \* st.cache_data of filter_data: key -> table
    topCache,           \* st.cache_data of get_top_emitters: key -> rows
    PROPHET_AVAILABLE,  \* the script's global flag
    df,                 \* the script's global table
    pc,                 \* where the current run of the script is
    out                 \* what the step just executed rendered

vars == <<raw, installed, tieOrder, loadCache, filterCache, topCache,
          PROPHET_AVAILABLE, df, pc, out>>

---------------------------------------------------------------------------
(* Bounds of the model *)

\* number of countries besides China and USA in the largest input table
MaxFill == 10
\* the input covers the years Cutoff - 1 .. Cutoff + Span
Span == 1
\* distinct argument tuples filter_data is called with in one behaviour
MaxCache == 1

(* Program constants *)

Cutoff == 2002
TopN == 10
ReductionN == 10
ForecastPeriods == 9

---------------------------------------------------------------------------
(* Generic helpers *)

Min(a, b) == IF a <= b THEN a ELSE b
Max(a, b) == IF a >= b THEN a ELSE b
Abs(a) == IF a < 0 THEN -a ELSE a

Range(s) == {s[i] : i \in 1..Len(s)}

RECURSIVE GCD(_, _)
GCD(a, b) == IF b = 0 THEN a ELSE GCD(b, a % b)

RECURSIVE SeqSum(_)
SeqSum(s) == IF s = <<>> THEN 0 ELSE Head(s) + SeqSum(Tail(s))

\* The elements of the finite set S as the sequence ordered by the strict
\* total order before, a function on S \X S.
SortSet(S, before) ==
    LET pos == [x \in S |-> Cardinality({y \in S : before[y, x]})]
    IN  [i \in 1..Cardinality(S) |-> CHOOSE x \in S : pos[x] = i - 1]

Ascending(S) == SortSet(S, [a \in S, b \in S |-> a < b])

---------------------------------------------------------------------------
(* Floats that are results of a division *)

Fin(n, d) ==
    LET g == GCD(Abs(n), d)
    IN  [k |-> "fin", n |-> n \div g, d |-> d \div g]
Inf == [k |-> "inf", n |-> 1, d |-> 0]
NaN == [k |-> "nan", n |-> 0, d |-> 0]
Zero == Fin(0, 1)

IsFinite(x) == x.k = "fin"

\* x < y for floats; every comparison with NaN is false
FloatLess(x, y) ==
    CASE x.k = "nan" \/ y.k = "nan" -> FALSE
      [] x.k = "inf" -> FALSE
      [] y.k = "inf" -> TRUE
      [] OTHER -> x.n * y.d < y.n * x.d

\* a / b * 100 as pandas computes it on float columns (a may be negative,
\* b >= 0): x/0 is inf for x > 0, -inf is not reachable as long as
\* the end value of a zero start is non-negative, and 0/0 is NaN.
FloatPct(a, b) ==
    IF b # 0 THEN Fin(a * 100, b)
    ELSE IF a = 0 THEN NaN ELSE Inf

---------------------------------------------------------------------------
(* Country names and their order as Python strings *)

AllNames == <<"Antarctica", "Brazil", "Canada", "China", "France", "Germany",
              "Global", "India", "Italy", "Japan", "Mexico", "Poland",
              "Spain", "Turkey", "USA", "United States">>

NameRank == [c \in {AllNames[i] : i \in 1..Len(AllNames)} |->
                CHOOSE i \in 1..Len(AllNames) : AllNames[i] = c]

NameLess(a, b) == NameRank[a] < NameRank[b]

\* sorted(...) of a set of names
sorted(S) == SelectSeq(AllNames, LAMBDA c : c \in S)

sources == <<"Total", "Coal">>

non_countries == {"Global", "International Transport", "Kuwaiti Oil Fires",
                  "Antarctica"}

DefaultSelection == {"Germany", "United States", "China", "India", "Brazil"}

---------------------------------------------------------------------------
(* The input tables *)

FirstYear == Cutoff
LastYear == Cutoff + Span
RawYears == (Cutoff - 1)..LastYear

Row(c, y, v) == [Country |-> c, Year |-> y, Total |-> v[1], Coal |-> v[2]]

\* A profile gives a country's <<Total, Coal>> before the cutoff, in the
\* first year and in the last year (<<>>: no row); the years in between
\* repeat the first year's row.
Profile(pre, first, last) == [pre |-> pre, first |-> first, last |-> last]

ProfileRows(c, p) ==
    LET at(y) == IF y < FirstYear THEN p.pre
                 ELSE IF y = LastYear THEN p.last
                 ELSE p.first
        ys == Ascending({y \in RawYears : at(y) # <<>>})
    IN  [i \in 1..Len(ys) |-> Row(c, ys[i], at(ys[i]))]

Rising    == Profile(<<100, 50>>, <<100, 0>>, <<150, 0>>)
Falling   == Profile(<<>>, <<100, 50>>, <<50, 100>>)
FromZero  == Profile(<<>>, <<0, 0>>, <<100, 50>>)
LastOnly  == Profile(<<>>, <<>>, <<100, 50>>)
FirstOnly == Profile(<<>>, <<100, 50>>, <<>>)
PreOnly   == Profile(<<100, 50>>, <<>>, <<>>)
Steady    == Profile(<<>>, <<100, 50>>, <<100, 50>>)

ChinaProfiles == {Rising, FromZero, LastOnly, PreOnly}
USAProfiles == {Falling, FromZero, FirstOnly}

FillNames == <<"Germany", "India", "Brazil", "Canada", "France", "Italy",
               "Japan", "Mexico", "Spain", "Turkey", "Poland">>

RECURSIVE Flatten(_)
Flatten(ss) == IF ss = <<>> THEN <<>> ELSE Head(ss) \o Flatten(Tail(ss))

\* data.csv: the aggregate rows, then one block of rows per country
RawTable(pc1, pu, pf, nFill) ==
    LET k == Min(nFill, Len(FillNames))
    IN  ProfileRows("Global", Profile(<<150, 100>>, <<150, 100>>, <<150, 100>>))
        \o ProfileRows("Antarctica", Profile(<<>>, <<0, 0>>, <<>>))
        \o ProfileRows("China", pc1)
        \o ProfileRows("USA", pu)
        \o Flatten([i \in 1..k |-> ProfileRows(FillNames[i], pf)])

\* the other countries: the three further defaults of the multiselect, or
\* MaxFill countries
FewFill == Cardinality(DefaultSelection) - 2

Fills == {<<FirstOnly, FewFill>>, <<Steady, FewFill>>, <<Steady, MaxFill>>}

RawTables ==
    {RawTable(pc1, pu, f[1], f[2]) :
        pc1 \in ChinaProfiles, pu \in USAProfiles, f \in Fills}

\* the input tables of a session
SessionTables ==
    {RawTable(pc1, pu, FirstOnly, FewFill) :
        pc1 \in {Rising, LastOnly}, pu \in {FromZero, FirstOnly}}

---------------------------------------------------------------------------
(* pandas operations the script uses *)

\* between with the upper end left out
between_exclusive_end(y, a, b) == a <= y /\ y < b

\* Series.between(a, b): inclusive on both ends
between(y, a, b) == a <= y /\ y <= b

\* DataFrame.head(n)
head(s, n) ==
    IF n >= 0 THEN SubSeq(s, 1, Min(n, Len(s)))
    ELSE SubSeq(s, 1, Max(0, Len(s) + n))

\* How a sort that is not stable leaves two rows of equal key.  pandas'
\* sort_values defaults to kind='quicksort', which numpy does not make
\* stable: the order of equal keys depends on the build.  The rows reach
\* every sort of the script in ascending country order, so "kept" is that
\* order and "reversed" its opposite.
TieOrders == {"kept", "reversed"}

TieBefore(tie, a, b) ==
    IF tie = "kept" THEN NameLess(a, b) ELSE NameLess(b, a)

\* DataFrame.sort_values on the rows S (one per country): less is the
\* strict order of the sort key, a function on S \X S
sort_values(S, less, tie) ==
    SortSet(S, [a \in S, b \in S |->
        \/ less[a, b]
        \/ ~less[b, a] /\ TieBefore(tie, a.Country, b.Country)])

\* ascending order of a float column; sort_values puts NaN last
NaNLastLess(x, y) ==
    IF y.k = "nan" THEN x.k # "nan"
    ELSE IF x.k = "nan" THEN FALSE
    ELSE FloatLess(x, y)

---------------------------------------------------------------------------
(* The data-preparation and query layer *)

\* load_data without the filter on the country
load_data_keeping_aggregates(csv) ==
    LET renamed == [i \in 1..Len(csv) |->
                       [csv[i] EXCEPT !.Country =
                           IF @ = "USA" THEN "United States" ELSE @]]
    IN  SelectSeq(renamed, LAMBDA r : r.Year >= Cutoff)

\* the body of load_data, on the rows read from data.csv
load_data(csv) ==
    LET kept == SelectSeq(csv, LAMBDA r : r.Country \notin non_countries)
        renamed == [i \in 1..Len(kept) |->
                       [kept[i] EXCEPT !.Country =
                           IF @ = "USA" THEN "United States" ELSE @]]
    IN  SelectSeq(renamed, LAMBDA r : r.Year >= Cutoff)

countries(t) == sorted({r.Country : r \in Range(t)})

years(t) == Ascending({r.Year : r \in Range(t)})

\* the body of filter_data; source is an argument the body does not read
filter_data(t, selected, start_year, end_year, source) ==
    SelectSeq(t, LAMBDA r : /\ r.Country \in Range(selected)
                            /\ between(r.Year, start_year, end_year))

ColumnSum(t, source) == SeqSum([i \in 1..Len(t) |-> t[i][source]])

\* df.groupby('Country', as_index=False)[source].sum(): one row per
\* country, in ascending country order
groupby_sum(t, source) ==
    LET cs == countries(t)
        group(c) == SelectSeq(t, LAMBDA r : r.Country = c)
    IN  [i \in 1..Len(cs) |->
            [Country |-> cs[i], value |-> ColumnSum(group(cs[i]), source)]]

\* get_top_emitters sorting with ascending=True
get_top_emitters_ascending(t, tie, source, n) ==
    LET S == Range(groupby_sum(t, source))
    IN  head(sort_values(S, [a \in S, b \in S |-> a.value < b.value], tie), n)

\* the body of get_top_emitters
get_top_emitters(t, tie, source, n) ==
    LET S == Range(groupby_sum(t, source))
    IN  head(sort_values(S, [a \in S, b \in S |-> a.value > b.value], tie), n)

\* the argument tuples st.cache_data hashes
filter_key(selected, start_year, end_year, source) ==
    <<selected, start_year, end_year, source>>

\* a key that leaves the source out
top_key_without_source(source, n) == <<"Total", n>>

top_key(source, n) == <<source, n>>

\* st.cache_data: the stored value on a hit, the computed one on a miss
CacheHit(cache, key) == \E e \in cache : e.args = key

CacheGet(cache, key, fresh) ==
    IF CacheHit(cache, key)
    THEN (CHOOSE e \in cache : e.args = key).value
    ELSE fresh

CachePut(cache, key, fresh) ==
    IF CacheHit(cache, key)
    THEN cache
    ELSE cache \cup {[args |-> key, value |-> fresh]}

---------------------------------------------------------------------------
(* Derived metrics *)

\* the percentage change without the guard on the start value
change_pct_unguarded(start_val, end_val) ==
    FloatPct(end_val - start_val, start_val)

\* display_kpis, line 62
change_pct(start_val, end_val) ==
    IF start_val # 0 THEN Fin((end_val - start_val) * 100, start_val) ELSE Zero

\* display_kpis, line 63
contribution(end_val, global_total) ==
    IF global_total # 0 THEN Fin(end_val * 100, global_total) ELSE Zero

\* display_kpis: the metrics it renders, or the exception it raises when
\* .values[0] indexes an empty selection
display_kpis(t, selected_countries, start_year, end_year, source) ==
    LET global_total ==
            ColumnSum(SelectSeq(t, LAMBDA r : r.Year = end_year), source)
        subset(c) == SelectSeq(t, LAMBDA r : /\ r.Country = c
                                             /\ between(r.Year, start_year, end_year))
        at(c, y) == SelectSeq(subset(c), LAMBDA r : r.Year = y)
        missing(c) == at(c, start_year) = <<>> \/ at(c, end_year) = <<>>
        metric(c) ==
            LET start_val == at(c, start_year)[1][source]
                end_val == at(c, end_year)[1][source]
            IN  [Country |-> c, start_val |-> start_val, end_val |-> end_val,
                 change_pct |-> change_pct(start_val, end_val),
                 contribution |-> contribution(end_val, global_total)]
    IN  IF \E i \in 1..Len(selected_countries) : missing(selected_countries[i])
        THEN [error |-> "IndexError", metrics |-> <<>>]
        ELSE [error |-> "",
              metrics |-> [i \in 1..Len(selected_countries) |->
                              metric(selected_countries[i])]]

\* the pivot with missing values filled with 0 instead of dropped
first_last_filled(t, source) ==
    LET ys == years(t)
        y0 == ys[1]
        y1 == ys[Len(ys)]
        at(c, y) == SelectSeq(t, LAMBDA r : r.Country = c /\ r.Year = y)
        val(c, y) == IF at(c, y) = <<>> THEN 0 ELSE at(c, y)[1][source]
        cs == countries(t)
    IN  IF t = <<>> THEN <<>>
        ELSE [i \in 1..Len(cs) |->
                 [Country |-> cs[i], first |-> val(cs[i], y0),
                  last |-> val(cs[i], y1)]]

\* lines 111-112: the pivot of the first and the last year of the table,
\* without the countries that lack either value
first_last(t, source) ==
    LET ys == years(t)
        y0 == ys[1]
        y1 == ys[Len(ys)]
        at(c, y) == SelectSeq(t, LAMBDA r : r.Country = c /\ r.Year = y)
        cs == SelectSeq(countries(t),
                        LAMBDA c : at(c, y0) # <<>> /\ at(c, y1) # <<>>)
    IN  IF t = <<>> THEN <<>>
        ELSE [i \in 1..Len(cs) |->
                 [Country |-> cs[i],
                  first |-> at(cs[i], y0)[1][source],
                  last |-> at(cs[i], y1)[1][source]]]

\* line 114: the "% Change" column
pct_change_column(fl) ==
    [i \in 1..Len(fl) |->
        [Country |-> fl[i].Country, first |-> fl[i].first, last |-> fl[i].last,
         pct |-> FloatPct(fl[i].last - fl[i].first, fl[i].first)]]

\* line 115
reductions(fl, tie) ==
    LET S == Range(pct_change_column(fl))
    IN  head(sort_values(S, [a \in S, b \in S |-> NaNLastLess(a.pct, b.pct)],
                         tie), ReductionN)

---------------------------------------------------------------------------
(* The forecast adapter and the breakdown *)

\* the import without the except clause
import_prophet_unguarded(inst) == [PROPHET_AVAILABLE |-> inst, raised |-> ~inst]

\* lines 7-11: the guarded import
import_prophet(inst) == [PROPHET_AVAILABLE |-> inst, raised |-> FALSE]

\* lines 142-148: the rows of one country and year, melted to one row per
\* component column (of the component columns the model carries)
breakdown(t, country, year) ==
    LET breakdown_df == SelectSeq(t, LAMBDA r : r.Country = country /\ r.Year = year)
    IN  [i \in 1..Len(breakdown_df) |->
            [Country |-> country, Year |-> year, Source |-> "Coal",
             Emissions |-> breakdown_df[i].Coal]]

\* pd.to_datetime(year, format='%Y'): the first of January, as yyyymmdd
to_datetime(y) == y * 10000 + 101

\* the last day of the year of the date d, as yyyymmdd
year_end(d, i) == ((d \div 10000) + i) * 10000 + 1231

\* the reshaping done in place: the dates are written to the Year column
\* of the rows of df
forecast_reshape_in_place(t, country, source) ==
    LET rows == SelectSeq(t, LAMBDA r : r.Country = country)
    IN  [df |-> [i \in 1..Len(t) |->
                    IF t[i].Country = country
                    THEN [t[i] EXCEPT !.Year = to_datetime(@)] ELSE t[i]],
         forecast_df |-> [i \in 1..Len(rows) |->
                            [Year |-> to_datetime(rows[i].Year),
                             Emission |-> rows[i][source]]]]

\* lines 164-166: the series of one country, and the table it is cut from
\* after the assignment to forecast_df['Year'].  forecast_df is the result
\* of rename(), a new frame, so the assignment does not reach df.
forecast_reshape(t, country, source) ==
    LET rows == SelectSeq(t, LAMBDA r : r.Country = country)
    IN  [df |-> t,
         forecast_df |-> [i \in 1..Len(rows) |->
                            [Year |-> to_datetime(rows[i].Year),
                             Emission |-> rows[i][source]]]]

\* lines 169-172: the frame handed to Prophet.fit and the dates of
\* make_future_dataframe(periods=9, freq='Y'): the history, then the
\* year ends that follow its last date
prophet_input(forecast_df) ==
    LET last == forecast_df[Len(forecast_df)].Year
    IN  [fit |-> [i \in 1..Len(forecast_df) |->
                    [ds |-> forecast_df[i].Year, y |-> forecast_df[i].Emission]],
         future |-> [i \in 1..Len(forecast_df) |-> forecast_df[i].Year]
                    \o [i \in 1..ForecastPeriods |-> year_end(last, i - 1)]]

---------------------------------------------------------------------------
(* The inputs the widgets can deliver, within the bounds of the model *)

PickCountries(t) == Range(countries(t)) \cap {"China", "United States"}

\* st.multiselect: a selection of options, in the order of the options
Selections(t) == {sorted(S) : S \in SUBSET PickCountries(t)}

\* the options of years the user picks: the first and the last one
PickYears(t) == {years(t)[1], years(t)[Len(years(t))]}

\* st.select_slider over years: a range of two options, low end first
YearRanges(t) == {yy \in PickYears(t) \X PickYears(t) : yy[1] <= yy[2]}

NoView == [tab |-> 0, kind |-> "none"]

---------------------------------------------------------------------------
(* What each tab renders.  g holds the script's globals; fc and tc are the *)
(* caches of filter_data and get_top_emitters as the tab finds them.       *)

\* lines 80-95, for one choice of the widgets
TrendsView(g, fc, selected, source, start_year, end_year) ==
    LET key == filter_key(selected, start_year, end_year, source)
        combined_df ==
            CacheGet(fc, key,
                     filter_data(g.df, selected, start_year, end_year, source))
        kpis == display_kpis(g.df, selected, start_year, end_year, source)
        raised == combined_df # <<>> /\ kpis.error # ""
    IN  [tab |-> 1,
         kind |-> IF combined_df = <<>> THEN "blank"
                  ELSE IF raised THEN "error" ELSE "chart",
         error |-> IF raised THEN kpis.error ELSE "",
         selected |-> selected, source |-> source,
         start_year |-> start_year, end_year |-> end_year,
         hit |-> CacheHit(fc, key),
         combined_df |-> combined_df,
         metrics |-> IF combined_df = <<>> THEN <<>> ELSE kpis.metrics]

\* line 72: st.multiselect raises when a default is not among the options
MultiselectError ==
    [tab |-> 1, kind |-> "error", error |-> "StreamlitAPIException",
     selected |-> <<>>, source |-> "", start_year |-> 0, end_year |-> 0,
     hit |-> FALSE, combined_df |-> <<>>, metrics |-> <<>>]

\* lines 97-124
ComparisonsView(g, tie, tc, source) ==
    LET key == top_key(source, TopN)
        fl == first_last(g.df, source)
    IN  [tab |-> 2,
         kind |-> IF fl # <<>> THEN "chart" ELSE "info",
         source |-> source,
         hit |-> CacheHit(tc, key),
         top10_alltime |->
             CacheGet(tc, key, get_top_emitters(g.df, tie, source, TopN)),
         reductions |-> IF fl # <<>> THEN reductions(fl, tie) ELSE <<>>]

\* lines 126-134
MapView(g, source) ==
    [tab |-> 3, kind |-> "map", source |-> source, data |-> g.df]

\* lines 136-153
BreakdownView(g, country, year) ==
    LET melted == breakdown(g.df, country, year)
    IN  [tab |-> 4, kind |-> IF melted # <<>> THEN "pie" ELSE "blank",
         country |-> country, year |-> year, melted |-> melted]

\* lines 156-193
ForecastView(g, country, source) ==
    IF ~g.PROPHET_AVAILABLE
    THEN [df |-> g.df,
          view |-> [tab |-> 5, kind |-> "warning", country |-> "",
                    source |-> "", fit |-> <<>>, future |-> <<>>]]
    ELSE LET r == forecast_reshape(g.df, country, source)
             p == prophet_input(r.forecast_df)
         IN  [df |-> r.df,
              view |-> [tab |-> 5, kind |-> "forecast", country |-> country,
                        source |-> source, fit |-> p.fit, future |-> p.future]]

---------------------------------------------------------------------------
(* The steps of one run of the script *)

globals == [df |-> df, PROPHET_AVAILABLE |-> PROPHET_AVAILABLE]

\* the process starts: nothing is cached and the script has not run
Start ==
    /\ installed \in BOOLEAN
    /\ tieOrder \in TieOrders
    /\ loadCache = {}
    /\ filterCache = {}
    /\ topCache = {}
    /\ PROPHET_AVAILABLE = FALSE
    /\ df = <<>>
    /\ pc = "import"
    /\ out = NoView

\* lines 7-11
Import ==
    /\ pc = "import"
    /\ LET r == import_prophet(installed)
       IN  /\ PROPHET_AVAILABLE' = r.PROPHET_AVAILABLE
           /\ pc' = IF r.raised THEN "aborted" ELSE "load"
           /\ out' = IF r.raised THEN [tab |-> 0, kind |-> "error"] ELSE NoView
    /\ UNCHANGED <<raw, installed, tieOrder, loadCache, filterCache, topCache, df>>

\* line 38: df = load_data(), through the cache
Load ==
    /\ pc = "load"
    /\ LET fresh == load_data(raw)
       IN  /\ df' = CacheGet(loadCache, <<>>, fresh)
           /\ loadCache' = CachePut(loadCache, <<>>, fresh)
    /\ pc' = "tab1"
    /\ out' = NoView
    /\ UNCHANGED <<raw, installed, tieOrder, filterCache, topCache, PROPHET_AVAILABLE>>

\* lines 70-95
Tab1 ==
    /\ pc = "tab1"
    /\ IF ~(DefaultSelection \subseteq Range(countries(df)))
       THEN /\ out' = MultiselectError
            /\ pc' = "aborted"
            /\ UNCHANGED filterCache
       ELSE \E selected \in Selections(df), source \in Range(sources),
               yy \in YearRanges(df) :
                LET key == filter_key(selected, yy[1], yy[2], source)
                    hit == CacheHit(filterCache, key)
                IN  /\ IF hit THEN TRUE ELSE Cardinality(filterCache) < MaxCache
                    /\ filterCache' =
                         CachePut(filterCache, key,
                                  filter_data(df, selected, yy[1], yy[2], source))
                    /\ out' = TrendsView(globals, filterCache, selected, source,
                                         yy[1], yy[2])
                    /\ pc' = IF out'.kind = "error" THEN "aborted" ELSE "tab2"
    /\ UNCHANGED <<raw, installed, tieOrder, loadCache, topCache, PROPHET_AVAILABLE, df>>

\* lines 97-124
Tab2 ==
    /\ pc = "tab2"
    /\ \E source \in Range(sources) :
        /\ topCache' = CachePut(topCache, top_key(source, TopN),
                                get_top_emitters(df, tieOrder, source, TopN))
        /\ out' = ComparisonsView(globals, tieOrder, topCache, source)
    /\ pc' = "tab3"
    /\ UNCHANGED <<raw, installed, tieOrder, loadCache, filterCache, PROPHET_AVAILABLE, df>>

\* lines 126-134
Tab3 ==
    /\ pc = "tab3"
    /\ \E source \in Range(sources) : out' = MapView(globals, source)
    /\ pc' = "tab4"
    /\ UNCHANGED <<raw, installed, tieOrder, loadCache, filterCache, topCache,
                   PROPHET_AVAILABLE, df>>

\* lines 136-153
Tab4 ==
    /\ pc = "tab4"
    /\ \E country \in PickCountries(df), year \in PickYears(df) :
        out' = BreakdownView(globals, country, year)
    /\ pc' = "tab5"
    /\ UNCHANGED <<raw, installed, tieOrder, loadCache, filterCache, topCache,
                   PROPHET_AVAILABLE>>
    /\ df' = df

\* lines 156-193; without prophet the selectboxes are not created
Tab5 ==
    /\ pc = "tab5"
    /\ \E country \in PickCountries(df), source \in Range(sources) :
        LET r == ForecastView(globals, country, source)
        IN  /\ df' = r.df
            /\ out' = r.view
    /\ pc' = "done"
    /\ UNCHANGED <<raw, installed, tieOrder, loadCache, filterCache, topCache,
                   PROPHET_AVAILABLE>>

\* a user interaction: Streamlit runs the script again in a fresh namespace
Rerun ==
    /\ pc \in {"done", "aborted"}
    /\ pc' = "import"
    /\ df' = <<>>
    /\ PROPHET_AVAILABLE' = FALSE
    /\ out' = NoView
    /\ UNCHANGED <<raw, installed, tieOrder, loadCache, filterCache, topCache>>

Run == Import \/ Load \/ Tab1 \/ Tab2 \/ Tab3 \/ Tab4 \/ Tab5

Next == Run \/ Rerun

InitRun == raw \in RawTables /\ Start

Init == raw \in SessionTables /\ Start

SpecRun == InitRun /\ [][Run]_vars

Spec == Init /\ [][Next]_vars

---------------------------------------------------------------------------
(* Properties *)

RowSet == Range(df)
CountrySet == {r.Country : r \in RowSet}
HasRow(c, y) == \E r \in RowSet : r.Country = c /\ r.Year = y
ValueAt(c, y, source) ==
    (CHOOSE r \in RowSet : r.Country = c /\ r.Year = y)[source]
TotalOf(c, source) ==
    LET rs == {r \in RowSet : r.Country = c}
        f[S \in SUBSET rs] ==
            IF S = {} THEN 0
            ELSE LET r == CHOOSE x \in S : TRUE IN r[source] + f[S \ {r}]
    IN  f[rs]
MinYear == CHOOSE y \in {r.Year : r \in RowSet} : \A r \in RowSet : y <= r.Year
MaxYear == CHOOSE y \in {r.Year : r \in RowSet} : \A r \in RowSet : y >= r.Year
Distinct(res) ==
    \A i, j \in 1..Len(res) : i # j => res[i].Country # res[j].Country

\* tab1 has run its filter (the multiselect did not raise)
Filtered == out.tab = 1 /\ out.error # "StreamlitAPIException"

\* C1: the loaded table holds no record of a country of the exclusion set
\* and no record of a year below the cutoff
C1_LoadedTableClean ==
    /\ \A r \in RowSet : r.Country \notin non_countries /\ r.Year >= Cutoff
    /\ \A e \in loadCache : \A r \in Range(e.value) :
           r.Country \notin non_countries /\ r.Year >= Cutoff

C1_Witness ==
    /\ pc = "tab1"
    /\ df # <<>>
    /\ \E r \in Range(raw) : r.Country \in non_countries
    /\ \E r \in Range(raw) : r.Country \notin non_countries /\ r.Year < Cutoff

\* C2: filter_data returns exactly the records of the loaded table whose
\* country is selected and whose year lies in [start_year, end_year], both
\* ends included; it is empty iff there is none, and an empty selection or
\* range gives an empty table, not an error
Selected(r) ==
    /\ r.Country \in Range(out.selected)
    /\ out.start_year <= r.Year
    /\ r.Year <= out.end_year

C2_FilterExact ==
    Filtered =>
        /\ Range(out.combined_df) = {r \in RowSet : Selected(r)}
        /\ Len(out.combined_df) = Cardinality({r \in RowSet : Selected(r)})
        /\ (out.combined_df = <<>>) <=> ~(\E r \in RowSet : Selected(r))
        /\ (out.selected = <<>>) => out.combined_df = <<>> /\ pc # "aborted"
        /\ ~(\E r \in RowSet : Selected(r)) => out.kind # "error"

C2_Witness ==
    /\ Filtered
    /\ out.combined_df # <<>>
    /\ out.start_year = out.end_year
    /\ \E r \in RowSet : r.Country \in Range(out.selected) /\ ~Selected(r)
    /\ \E r \in RowSet : r.Country \notin Range(out.selected)

\* res is the n countries of largest sum of source, largest first
TopEmitters(res, source, n) ==
    /\ Len(res) = Min(n, Cardinality(CountrySet))
    /\ Distinct(res)
    /\ \A i \in 1..Len(res) :
        /\ res[i].Country \in CountrySet
        /\ res[i].value = TotalOf(res[i].Country, source)
        /\ \A c \in CountrySet \ {res[j].Country : j \in 1..Len(res)} :
               TotalOf(c, source) <= res[i].value
    /\ \A i \in 1..Len(res) - 1 : res[i].value >= res[i + 1].value

\* countries of equal sum stand in ascending order of their names
TiesByName(res) ==
    \A i \in 1..Len(res) - 1 :
        res[i].value = res[i + 1].value =>
            NameLess(res[i].Country, res[i + 1].Country)

TopNs == 0..(Cardinality(CountrySet) + 1)

MissingEndpoint ==
    \E c \in Range(out.selected) :
        ~HasRow(c, out.start_year) \/ ~HasRow(c, out.end_year)

C4_NoDataState ==
    (Filtered /\ (out.combined_df = <<>> \/ MissingEndpoint)) =>
        /\ out.kind \notin {"blank", "error"}
        /\ pc # "aborted"

\* C5: every percentage the program computes is finite, and is 0 when its
\* denominator is 0
C5_ZeroFallback ==
    /\ (out.tab = 1) =>
           \A i \in 1..Len(out.metrics) :
               /\ IsFinite(out.metrics[i].change_pct)
               /\ IsFinite(out.metrics[i].contribution)
               /\ out.metrics[i].start_val = 0 => out.metrics[i].change_pct = Zero
    /\ (out.tab = 2) =>
           \A i \in 1..Len(out.reductions) :
               /\ IsFinite(out.reductions[i].pct)
               /\ out.reductions[i].first = 0 => out.reductions[i].pct = Zero

\* C6: the reduction ranking is computed between the first and the last
\* year of the loaded table, holds only countries with a value in both,
\* is in ascending order of the percentage change and has at most 10
\* entries (the 10 smallest changes)
BothEnds == {c \in CountrySet : HasRow(c, MinYear) /\ HasRow(c, MaxYear)}

ChangeOf(c, source) ==
    FloatPct(ValueAt(c, MaxYear, source) - ValueAt(c, MinYear, source),
             ValueAt(c, MinYear, source))

C6_ReductionRanking ==
    out.tab = 2 =>
        LET red == out.reductions
        IN  /\ (out.kind = "info") <=> (BothEnds = {})
            /\ Len(red) <= ReductionN
            /\ Len(red) = Min(ReductionN, Cardinality(BothEnds))
            /\ Distinct(red)
            /\ \A i \in 1..Len(red) :
                /\ red[i].Country \in BothEnds
                /\ red[i].first = ValueAt(red[i].Country, MinYear, out.source)
                /\ red[i].last = ValueAt(red[i].Country, MaxYear, out.source)
                /\ red[i].pct = ChangeOf(red[i].Country, out.source)
                /\ \A c \in BothEnds \ {red[j].Country : j \in 1..Len(red)} :
                       ~NaNLastLess(ChangeOf(c, out.source), red[i].pct)
            /\ \A i \in 1..Len(red) - 1 :
                   ~NaNLastLess(red[i + 1].pct, red[i].pct)

C6_Witness ==
    /\ out.tab = 2
    /\ Len(out.reductions) = ReductionN
    /\ Cardinality(BothEnds) > ReductionN
    /\ CountrySet \ BothEnds # {}
    /\ \E i \in 1..Len(out.reductions) :
           FloatLess(out.reductions[i].pct, Zero)
    /\ FloatLess(out.reductions[1].pct, out.reductions[ReductionN].pct)

\* C7: the KPI change between the start value s and the end value e of a
\* country is (e - s) / s * 100 when s # 0, and 0 when s = 0
C7_PercentChange ==
    (out.tab = 1 /\ out.kind = "chart") =>
        /\ Len(out.metrics) = Len(out.selected)
        /\ \A i \in 1..Len(out.metrics) :
            LET m == out.metrics[i]
                s == ValueAt(out.selected[i], out.start_year, out.source)
                e == ValueAt(out.selected[i], out.end_year, out.source)
            IN  /\ m.start_val = s
                /\ m.end_val = e
                /\ s # 0 => /\ IsFinite(m.change_pct)
                            /\ m.change_pct.n * s = (e - s) * 100 * m.change_pct.d
                /\ s = 0 => m.change_pct = Fin(0, 1)
                /\ (s = 100 /\ e = 150) => m.change_pct = Fin(50, 1)
                /\ (s = 100 /\ e = 50) => m.change_pct = Fin(-50, 1)

C7_Witness ==
    /\ out.tab = 1
    /\ out.kind = "chart"
    /\ \E i \in 1..Len(out.metrics) :
           out.metrics[i].start_val = 0 /\ out.metrics[i].end_val > 0
    /\ \E i \in 1..Len(out.metrics) :
           out.metrics[i].start_val = 100 /\ out.metrics[i].end_val = 150

\* C8: whatever calls came before, each cache holds for an argument tuple
\* what a fresh computation with these arguments returns, and so does a
\* call answered from the cache
C8_CacheTransparent ==
    /\ \A e \in loadCache : e.value = load_data(raw)
    /\ \A e \in filterCache :
           e.value = filter_data(load_data(raw), e.args[1], e.args[2],
                                 e.args[3], e.args[4])
    /\ \A e \in topCache :
           e.value = get_top_emitters(load_data(raw), tieOrder,
                                      e.args[1], e.args[2])
    /\ (Filtered /\ out.hit) =>
           out.combined_df = filter_data(df, out.selected, out.start_year,
                                         out.end_year, out.source)
    /\ (out.tab = 2 /\ out.hit) =>
           out.top10_alltime = get_top_emitters(df, tieOrder, out.source, TopN)

C8_Witness ==
    /\ out.tab = 2
    /\ out.hit
    /\ Cardinality(topCache) = Len(sources)
    /\ filterCache # {}
    /\ \E e \in topCache : e.args[1] # out.source /\ e.value # out.top10_alltime

\* C9: once loaded, the table is not changed by any step of the run, and
\* the table the cache holds is never changed
C9_TableNeverMutated ==
    [][/\ pc \in {"tab1", "tab2", "tab3", "tab4", "tab5"} => df' = df
       /\ loadCache # {} => loadCache' = loadCache]_vars

C9_Witness ==
    /\ pc = "done"
    /\ out.kind = "forecast"
    /\ df = load_data(raw)
    /\ df # <<>>

\* C10: the import of prophet never aborts the run; without prophet the
\* forecasting tab renders the warning and hands nothing to Prophet; and
\* each other tab renders what it renders with the flag the other way
Flipped == [globals EXCEPT !.PROPHET_AVAILABLE = ~@]

C10_ForecastUnavailable ==
    [][/\ pc = "import" => pc' = "load" /\ PROPHET_AVAILABLE' = installed
       /\ (pc = "tab1" /\ out'.error # "StreamlitAPIException") =>
              out' = TrendsView(Flipped, filterCache, out'.selected, out'.source,
                                out'.start_year, out'.end_year)
       /\ pc = "tab2" =>
              out' = ComparisonsView(Flipped, tieOrder, topCache, out'.source)
       /\ pc = "tab3" => out' = MapView(Flipped, out'.source)
       /\ pc = "tab4" => out' = BreakdownView(Flipped, out'.country, out'.year)
       /\ (pc = "tab5" /\ ~installed) =>
              /\ pc' = "done"
              /\ out'.kind = "warning"
              /\ out'.fit = <<>>]_vars

C10_Witness ==
    /\ pc = "done"
    /\ ~installed
    /\ out.kind = "warning"
    /\ df # <<>>

===========================================================================
